---- MODULE Spec2Model ----
(***************************************************************************)
(* Hisen Desk: the presentation shell (src/src/App.tsx) and the four       *)
(* backend commands it invokes.  The shell is a React component with five  *)
(* state cells; refresh() and runTest() are async functions, so each       *)
(* action below is one run-to-completion segment of such a function: the   *)
(* code from one suspension point (an await) to the next.  State updates   *)
(* made inside one segment are batched by React and become visible         *)
(* together.                                                               *)
(***************************************************************************)
EXTENDS Integers, Sequences, FiniteSets, TLC

\* How many times refresh() may be invoked (the startup call included).
MaxRefresh == 2
\* How many times runTest() may be invoked.
MaxTests == 2

VARIABLES
    sys,        \* useState<SystemInfo | null>
    audio,      \* useState<AudioDevices | null>
    cameras,    \* useState<string[]>
    testing,    \* useState(false)
    net,        \* useState<NetTestResult | null>
    mounted,    \* whether the mount effect has run
    apiLoaded,  \* whether '@tauri-apps/api/core' is in the module cache
    refreshes,  \* the invocations of refresh(), in invocation order
    tests,      \* the invocations of runTest(), in invocation order
    issued,     \* per command, how many calls reached the backend
    settled     \* how the call awaited by the latest runTest() settled

vars == <<sys, audio, cameras, testing, net, mounted, apiLoaded,
          refreshes, tests, issued, settled>>

shellState == <<sys, audio, cameras, testing, net>>

-----------------------------------------------------------------------------
\* Optional values: null is the empty set, a present value v is {v}.
Null == {}
Some(v) == {v}
The(o) == CHOOSE v \in o : TRUE

\* Strings that get concatenated are sequences of text fragments.
EmptyString == <<>>

RefreshCmds == <<"get_system_info", "list_audio_devices", "list_cameras">>
Commands == {"get_system_info", "list_audio_devices", "list_cameras",
             "run_network_test"}

\* Commands that signal an enumeration failure as a call-level error.
Fallible == {"list_audio_devices", "list_cameras"}

\* What a failed dynamic import can reject with.
ImportFailures ==
    { [type |-> "Error", name |-> <<"TypeError">>,
       message |-> <<"Failed to fetch dynamically imported module">>],
      [type |-> "Error", name |-> <<"Error">>, message |-> EmptyString],
      [type |-> "string", val |-> <<"module not found">>],
      [type |-> "null"] }

\* String(e): Error.prototype.toString for errors, the string itself for a
\* string, "null" for null.
StringOf(e) ==
    CASE e.type = "Error" ->
            IF e.message = EmptyString THEN e.name
            ELSE e.name \o <<": ">> \o e.message
      [] e.type = "string" -> e.val
      [] e.type = "null" -> <<"null">>

-----------------------------------------------------------------------------
\* Records returned by the backend.  Every record is created fresh by the
\* call that produces it, so a record carries the number of that call.
SystemInfoRecord(call) == [call |-> call, cpu_brand |-> "cpu", uptime |-> "1h"]

AudioPayloads ==
    { [inputs |-> <<>>, outputs |-> <<"speaker">>,
       default_input |-> Null, default_output |-> Some("speaker")] }

AudioDevicesRecord(call, p) ==
    [call |-> call, inputs |-> p.inputs, outputs |-> p.outputs,
     default_input |-> p.default_input, default_output |-> p.default_output]

CameraPayloads == { <<"camera">> }

CameraList(call, devs) == [call |-> call, devs |-> devs]

\* useState<string[]>([])
NoCameras == CameraList(0, <<>>)

-----------------------------------------------------------------------------
\* The network prober: three sub-measurements, each succeeding or failing.
Measurements == <<"ip", "latency", "download">>

FieldOf(m) ==
    CASE m = "ip" -> "external_ip"
      [] m = "latency" -> "http_latency_ms"
      [] m = "download" -> "download_mbps"

ValueOf(m) ==
    CASE m = "ip" -> "203.0.113.7"
      [] m = "latency" -> "42"
      [] m = "download" -> "8"

FailureMessage(m) ==
    CASE m = "ip" -> "ip lookup failed"
      [] m = "latency" -> "latency request failed"
      [] m = "download" -> "download failed"

Outcomes == [ip : BOOLEAN, latency : BOOLEAN, download : BOOLEAN]

EmptyResult ==
    [external_ip |-> Null, http_latency_ms |-> Null, download_mbps |-> Null,
     upload_mbps |-> Null, error |-> Null]

\* Append a failure reason to the running error message.
AppendError(err, msg) ==
    IF err = Null THEN Some(<<msg>>) ELSE Some(The(err) \o <<"; ", msg>>)

\* One sub-measurement: it is attempted, and either fills its field or
\* appends its failure reason.
Measure(run, m, ok) ==
    [attempts |-> Append(run.attempts, m),
     result |-> IF ok
                THEN [run.result EXCEPT ![FieldOf(m)] = Some(ValueOf(m))]
                ELSE [run.result EXCEPT !.error = AppendError(@, FailureMessage(m))]]

RunNetworkTest_AbortOnFailure(o) ==
    LET r0 == [attempts |-> <<>>, result |-> EmptyResult]
        r1 == Measure(r0, "ip", o.ip)
        r2 == IF o.ip THEN Measure(r1, "latency", o.latency) ELSE r1
    IN  IF o.ip /\ o.latency THEN Measure(r2, "download", o.download) ELSE r2

RunNetworkTest_LastErrorOnly(o) ==
    LET r0 == [attempts |-> <<>>, result |-> EmptyResult]
        step(run, m, ok) ==
            LET fresh == [run EXCEPT !.result.error = Null]
            IN  IF ok THEN Measure(run, m, ok) ELSE Measure(fresh, m, ok)
    IN  step(step(step(r0, "ip", o.ip), "latency", o.latency),
             "download", o.download)

\* run_network_test: the three sub-measurements in sequence.
RunNetworkTest(o) ==
    LET r0 == [attempts |-> <<>>, result |-> EmptyResult]
    IN  Measure(Measure(Measure(r0, "ip", o.ip), "latency", o.latency),
                "download", o.download)

-----------------------------------------------------------------------------
Init ==
    /\ sys = Null
    /\ audio = Null
    /\ cameras = NoCameras
    /\ testing = FALSE
    /\ net = Null
    /\ mounted = FALSE
    /\ apiLoaded = FALSE
    /\ refreshes = <<>>
    /\ tests = <<>>
    /\ issued = [c \in Commands |-> 0]
    /\ settled = Null

\* invokeCmd(cmd) up to its first suspension.  A cached module resolves the
\* import in a microtask, so the command is issued within the same segment;
\* otherwise the call waits for the module to load.
invokeCmd(cmd) ==
    IF apiLoaded
    THEN [pc |-> "invoke", call |-> issued[cmd] + 1]
    ELSE [pc |-> "import", call |-> 0]

\* The command leaves for the backend.
Issue(cmd) == [issued EXCEPT ![cmd] = @ + 1]

IssueIfLoaded(cmd) == IF apiLoaded THEN Issue(cmd) ELSE issued

\* One invocation of an async function, suspended in invokeCmd(cmd).
Suspended(stage, inv) == [stage |-> stage, pc |-> inv.pc, call |-> inv.call]

Pending(i) == i.pc \in {"import", "invoke"}

-----------------------------------------------------------------------------
\* refresh(), from its entry to the first await.
refresh ==
    /\ Len(refreshes) < MaxRefresh
    /\ refreshes' = Append(refreshes, Suspended(1, invokeCmd(RefreshCmds[1])))
    /\ issued' = IssueIfLoaded(RefreshCmds[1])
    /\ UNCHANGED <<shellState, apiLoaded, tests, settled>>

\* useEffect(() => { refresh() }, [])
Mount ==
    /\ ~mounted
    /\ mounted' = TRUE
    /\ refresh

\* <button onClick={refresh}>
RefreshClick ==
    /\ mounted
    /\ UNCHANGED mounted
    /\ refresh

\* The module finishes loading while a refresh waits in invokeCmd: the
\* command is issued.
RefreshImportLoads(r) ==
    LET i == refreshes[r]
        cmd == RefreshCmds[i.stage]
    IN  /\ i.pc = "import"
        /\ apiLoaded' = TRUE
        /\ refreshes' = [refreshes EXCEPT
                            ![r] = [i EXCEPT !.pc = "invoke",
                                             !.call = issued[cmd] + 1]]
        /\ issued' = Issue(cmd)
        /\ UNCHANGED <<shellState, mounted, tests, settled>>

\* catch (e) { console.error('refresh error', e) }
RefreshCatch(r) ==
    /\ refreshes' = [refreshes EXCEPT ![r].pc = "failed"]
    /\ UNCHANGED <<shellState, mounted, apiLoaded, tests, issued, settled>>

\* The dynamic import rejects while a refresh waits in invokeCmd.
RefreshImportFails(r) ==
    /\ refreshes[r].pc = "import"
    /\ ~apiLoaded
    /\ RefreshCatch(r)

\* The backend rejects the call a refresh is awaiting.
RefreshRejects(r) ==
    /\ refreshes[r].pc = "invoke"
    /\ RefreshCmds[refreshes[r].stage] \in Fallible
    /\ RefreshCatch(r)

\* The value the backend resolves the call of a refresh with.
Responses(cmd, call) ==
    CASE cmd = "get_system_info" -> { SystemInfoRecord(call) }
      [] cmd = "list_audio_devices" ->
            { AudioDevicesRecord(call, p) : p \in AudioPayloads }
      [] cmd = "list_cameras" -> { CameraList(call, d) : d \in CameraPayloads }

\* The call a refresh is awaiting resolves: the setter of that stage runs and
\* the refresh goes on to the next command, or returns after the last one.
RefreshResolves(r) ==
    LET i == refreshes[r]
        cmd == RefreshCmds[i.stage]
    IN  /\ i.pc = "invoke"
        /\ \E v \in Responses(cmd, i.call) :
              /\ sys' = IF i.stage = 1 THEN Some(v) ELSE sys
              /\ audio' = IF i.stage = 2 THEN Some(v) ELSE audio
              /\ cameras' = IF i.stage = 3 THEN v ELSE cameras
        /\ IF i.stage < Len(RefreshCmds)
           THEN /\ refreshes' = [refreshes EXCEPT
                       ![r] = Suspended(i.stage + 1,
                                        invokeCmd(RefreshCmds[i.stage + 1]))]
                /\ issued' = IssueIfLoaded(RefreshCmds[i.stage + 1])
           ELSE /\ refreshes' = [refreshes EXCEPT
                       ![r] = [stage |-> i.stage, pc |-> "done", call |-> 0]]
                /\ UNCHANGED issued
        /\ UNCHANGED <<testing, net, mounted, apiLoaded, tests, settled>>

-----------------------------------------------------------------------------
RunTestDisabled_NeverDisabled == FALSE

\* <button onClick={runTest} disabled={testing}>
RunTestDisabled == testing

runTest_KeepsNet ==
    /\ Len(tests) < MaxTests
    /\ testing' = TRUE
    /\ UNCHANGED net
    /\ tests' = Append(tests, [pc |-> invokeCmd("run_network_test").pc])
    /\ issued' = IssueIfLoaded("run_network_test")
    /\ settled' = Null
    /\ UNCHANGED <<sys, audio, cameras, apiLoaded, refreshes>>

\* runTest(), from its entry to the await.
runTest ==
    /\ Len(tests) < MaxTests
    /\ testing' = TRUE
    /\ net' = Null
    /\ tests' = Append(tests, [pc |-> invokeCmd("run_network_test").pc])
    /\ issued' = IssueIfLoaded("run_network_test")
    /\ settled' = Null
    /\ UNCHANGED <<sys, audio, cameras, apiLoaded, refreshes>>

\* A click on the run-test control; a disabled button fires no handler.
RunTestClick ==
    /\ mounted
    /\ ~RunTestDisabled
    /\ UNCHANGED mounted
    /\ runTest

\* The module finishes loading while a test waits in invokeCmd.
TestImportLoads(t) ==
    /\ tests[t].pc = "import"
    /\ apiLoaded' = TRUE
    /\ tests' = [tests EXCEPT ![t].pc = "invoke"]
    /\ issued' = Issue("run_network_test")
    /\ UNCHANGED <<shellState, mounted, refreshes, settled>>

\* setNet(r), then the finally block.
RunTestThen(r) ==
    /\ net' = Some(r)
    /\ testing' = FALSE

RunTestCatch_SwallowsError(e) ==
    /\ net' = Null
    /\ testing' = FALSE

RunTestCatch_NoFinally(e) ==
    /\ net' = Some([error |-> Some(StringOf(e))])
    /\ UNCHANGED testing

\* catch (e) { setNet({ error: String(e) }) }, then the finally block.
RunTestCatch(e) ==
    /\ net' = Some([error |-> Some(StringOf(e))])
    /\ testing' = FALSE

\* The dynamic import rejects while a test waits in invokeCmd.
TestImportFails(t) ==
    /\ tests[t].pc = "import"
    /\ ~apiLoaded
    /\ \E e \in ImportFailures :
          /\ RunTestCatch(e)
          /\ settled' = Some([outcome |-> "rejected", thrown |-> e])
    /\ tests' = [tests EXCEPT ![t].pc = "done"]
    /\ UNCHANGED <<sys, audio, cameras, mounted, apiLoaded, refreshes, issued>>

\* The backend runs the network test and the awaited call resolves with its
\* record.
TestResolves(t) ==
    /\ tests[t].pc = "invoke"
    /\ \E o \in Outcomes :
          LET run == RunNetworkTest(o)
          IN  /\ settled' = Some([outcome |-> "resolved", outcomes |-> o,
                                  attempts |-> run.attempts,
                                  result |-> run.result])
              /\ RunTestThen(run.result)
    /\ tests' = [tests EXCEPT ![t].pc = "done"]
    /\ UNCHANGED <<sys, audio, cameras, mounted, apiLoaded, refreshes, issued>>

-----------------------------------------------------------------------------
\* The settling of the call a test awaits: the import or the command.
TestSettles ==
    \E t \in 1..Len(tests) :
        \/ TestImportLoads(t)
        \/ TestImportFails(t)
        \/ TestResolves(t)

Next ==
    \/ Mount
    \/ RefreshClick
    \/ RunTestClick
    \/ \E r \in 1..Len(refreshes) : RefreshImportLoads(r)
    \/ \E r \in 1..Len(refreshes) : RefreshImportFails(r)
    \/ \E r \in 1..Len(refreshes) : RefreshResolves(r)
    \/ \E r \in 1..Len(refreshes) : RefreshRejects(r)
    \/ \E t \in 1..Len(tests) : TestImportLoads(t)
    \/ \E t \in 1..Len(tests) : TestImportFails(t)
    \/ \E t \in 1..Len(tests) : TestResolves(t)

Spec == Init /\ [][Next]_vars

\* Every pending import and every issued run_network_test call eventually
\* settles.
FairSpec == Spec /\ WF_vars(TestSettles)

-----------------------------------------------------------------------------
Range(f) == { f[i] : i \in DOMAIN f }

InFlight == { t \in 1..Len(tests) : Pending(tests[t]) }

Finished(i) == ~Pending(i)

\* A refresh whose awaited command was rejected by the backend (as opposed
\* to one whose module import failed before any command was issued).
CommandFailed(i) == i.pc = "failed" /\ i.call > 0

-----------------------------------------------------------------------------
Resolved == settled # Null /\ The(settled).outcome = "resolved"

Rejected == settled # Null /\ The(settled).outcome = "rejected"

\* C1: whenever an invocation of runTest ends, the shell holds a non-null
\* NetTestResult: the backend's record when the call resolved, and a record
\* whose error field is the non-null String(e) when the call rejected.
C1_RunTestEndsWithRecord ==
    [][\A t \in 1..Len(tests) :
          (tests[t].pc # "done" /\ tests'[t].pc = "done") =>
              /\ net' # Null
              /\ Resolved' \/ Rejected'
              /\ Resolved' => net' = Some(The(settled').result)
              /\ Rejected' =>
                     /\ The(net').error # Null
                     /\ The(net').error = Some(StringOf(The(settled').thrown))]_vars

\* A test whose call rejected has ended, and its error record is held.
C1_Witness ==
    /\ Rejected
    /\ ~testing
    /\ net # Null
    /\ The(net).error = Some(StringOf(The(settled).thrown))

\* C2: in the record of a run of run_network_test, error is null exactly when
\* all three sub-measurements succeeded; otherwise it is non-empty and holds
\* the failure messages of exactly the sub-measurements that failed, and with
\* all three failing all three measurement fields are null.
C2_ErrorIffSomeFailure ==
    Resolved =>
        LET p == The(settled)
            failedOnes == { m \in Range(Measurements) : ~p.outcomes[m] }
        IN  /\ (p.result.error = Null) <=> (failedOnes = {})
            /\ failedOnes # {} =>
                  /\ The(p.result.error) # EmptyString
                  /\ \A m \in Range(Measurements) :
                        (FailureMessage(m) \in Range(The(p.result.error)))
                            <=> (m \in failedOnes)
            /\ failedOnes = Range(Measurements) =>
                  \A m \in Range(Measurements) : p.result[FieldOf(m)] = Null

\* A run in which two sub-measurements failed, held by the shell with both
\* messages in its error.
C2_Witness ==
    /\ Resolved
    /\ The(settled).outcomes = [ip |-> FALSE, latency |-> TRUE, download |-> FALSE]
    /\ net = Some(The(settled).result)
    /\ Len(The(The(net).error)) > 1

\* C3: every run of run_network_test attempts external-IP lookup, latency and
\* download exactly once each and in that order, whatever the earlier
\* outcomes, and each measurement field is non-null exactly when its own
\* sub-measurement succeeded.
C3_EachMeasurementOnceInOrder ==
    Resolved =>
        LET p == The(settled)
        IN  /\ p.attempts = Measurements
            /\ \A m \in Range(Measurements) :
                  (p.result[FieldOf(m)] # Null) <=> p.outcomes[m]

\* The external-IP lookup failed and the two later measurements still ran
\* and succeeded.
C3_Witness ==
    /\ Resolved
    /\ The(settled).outcomes = [ip |-> FALSE, latency |-> TRUE, download |-> TRUE]
    /\ The(settled).result.external_ip = Null
    /\ The(settled).result.http_latency_ms # Null
    /\ The(settled).result.download_mbps # Null

\* C4: at most one run_network_test call is pending at any time, and while
\* one is pending testing is true, so the run-test control is disabled.
C4_AtMostOneTestInFlight ==
    /\ Cardinality(InFlight) <= 1
    /\ InFlight # {} => testing

\* A second test is in flight at the backend after the first one ended.
C4_Witness ==
    /\ Len(tests) > 1
    /\ tests[1].pc = "done"
    /\ tests[Len(tests)].pc = "invoke"
    /\ testing

\* C5: once every refresh has settled, each of get_system_info,
\* list_audio_devices and list_cameras has been issued exactly once per
\* invocation of refresh (startup or click) whose module import succeeded,
\* and never more often; run_network_test is issued at most once per click
\* on the run-test control.
C5_QueriesOncePerRefresh ==
    LET imported == { r \in 1..Len(refreshes) :
                         ~(refreshes[r].call = 0 /\ refreshes[r].pc = "failed") }
    IN  /\ \A c \in Range(RefreshCmds) : issued[c] <= Len(refreshes)
        /\ issued["run_network_test"] <= Len(tests)
        /\ (\A r \in 1..Len(refreshes) : Finished(refreshes[r])) =>
               \A c \in Range(RefreshCmds) : issued[c] = Cardinality(imported)

\* C6: when list_audio_devices or list_cameras is rejected during a refresh,
\* the shell then holds nothing for that section.
C6_FailedSectionShowsNothing ==
    [][\A r \in 1..Len(refreshes) :
          (refreshes[r].pc = "invoke" /\ refreshes'[r].pc = "failed") =>
              /\ refreshes[r].stage = 2 => audio' = Null
              /\ refreshes[r].stage = 3 => cameras'.devs = <<>>]_vars

\* C7: the response to an earlier-issued call never replaces the held
\* response to a later-issued call of the same query.
C7_LaterCallNeverReplaced ==
    [][/\ (sys # Null /\ sys' # Null) => The(sys').call >= The(sys).call
       /\ (audio # Null /\ audio' # Null) => The(audio').call >= The(audio).call
       /\ cameras'.call >= cameras.call]_vars

\* C8: a refresh in which one command failed has still issued all three
\* commands; and refresh never changes net or testing, runTest never changes
\* sys, audio or cameras.
C8_QueriesIndependent ==
    /\ [](\A r \in 1..Len(refreshes) :
             CommandFailed(refreshes[r]) =>
                 refreshes[r].stage = Len(RefreshCmds))
    /\ [][/\ refreshes' # refreshes => UNCHANGED <<net, testing>>
          /\ tests' # tests => UNCHANGED <<sys, audio, cameras>>]_vars

\* C9: while a network test is in progress no result is held.
C9_TestingImpliesNoResult == testing => net = Null

\* A second test is in progress after the first one left a result, and the
\* result has been cleared.
C9_Witness ==
    /\ testing
    /\ net = Null
    /\ Len(tests) > 1
    /\ tests[1].pc = "done"

\* C10: when the awaited call eventually settles, a started test eventually
\* sets testing back to false, and testing only turns false together with a
\* record being stored in net.
C10_TestingEventuallyFalse ==
    /\ testing ~> (~testing /\ net # Null)
    /\ [][(testing /\ ~testing') => net' # Null]_vars

\* A second test has ended, by a result after the module loaded late, and
\* the control is enabled again with the result held.
C10_Witness ==
    /\ ~testing
    /\ Len(tests) > 1
    /\ \A t \in 1..Len(tests) : tests[t].pc = "done"
    /\ Resolved
    /\ net = Some(The(settled).result)

====
